---- MODULE Spec2Model ----
(***************************************************************************)
(* Error handling and structured logging layer of the auth / order /       *)
(* product services: the application logger (core/logger.py), its request  *)
(* middleware, the error taxonomy and the exception-to-response mapper     *)
(* (core/error.py).                                                        *)
(*                                                                         *)
(* Python values are modelled as tagged JSON-like values so that None, a   *)
(* string, an integer, a list and a dict can live in one dict and be       *)
(* compared.  `log` holds, in order, the calls made on the application     *)
(* logger (logging.Logger.info / warning / error) with their `extra`       *)
(* payload; the standard library then filters them by level and hands them *)
(* to the handlers.                                                        *)
(***************************************************************************)
EXTENDS Integers, Sequences, FiniteSets, TLC

(***************************************************************************)
(* Bounds of the model.                                                    *)
(***************************************************************************)
MaxSetups == 2
MaxUuids == 3
MaxThreads == 2

(***************************************************************************)
(* Python values.                                                          *)
(***************************************************************************)
JNull == [t |-> "null"]
JStr(s) == [t |-> "str", v |-> s]
JInt(n) == [t |-> "int", v |-> n]
JBool(b) == [t |-> "bool", v |-> b]
JList(q) == [t |-> "list", v |-> q]
JDict(d) == [t |-> "dict", v |-> d]

EmptyDict == [k \in {} |-> JNull]

\* {**a, **b}: the keys of b override those of a
Merge(a, b) == b @@ a

\* d.get(k) / getattr(obj, k, None)
Get(d, k) == IF k \in DOMAIN d THEN d[k] ELSE JNull

\* Python truthiness of a value (`x or default`, `if x:`)
Truthy(x) ==
    CASE x.t = "null" -> FALSE
      [] x.t = "str" -> x.v # ""
      [] x.t = "int" -> x.v # 0
      [] x.t = "bool" -> x.v
      [] x.t = "list" -> x.v # <<>>
      [] x.t = "dict" -> DOMAIN x.v # {}
      [] OTHER -> TRUE

\* f"...{x}..." of a value into a message
Fmt(x) ==
    CASE x.t = "str" -> x.v
      [] x.t = "null" -> "None"
      [] x.t = "int" -> ToString(x.v)
      [] OTHER -> ToString(x.v)

(***************************************************************************)
(* core/logger.py                                                          *)
(***************************************************************************)
VARIABLES
    logger,           \* Logger._logger: "None" or the application logger's name
    level,            \* level of the application logger
    handlers,         \* handlers of the application logger, in order
    propagate,        \* propagate flag of the application logger
    user_middleware,  \* LoggingMiddleware entries installed on the app, in order
    log,              \* calls made on the application logger since the current
                      \* request was received, in order
    nsetup,           \* number of explicit Logger.setup calls so far
    uuids,            \* number of uuid4() values generated so far
    request,          \* the current request: headers, state, path, method
    phase,            \* where the current request is in the middleware stack
    stack,            \* LoggingMiddleware.dispatch frames of the current request,
                      \* outermost first
    downstream,       \* what call_next produced for the innermost active frame
    fault,            \* the fault raised while the current request is served
    result,           \* outcome of the last mapper / constructor call
    built,            \* outcome of the last direct call of a constructor, the
                      \* weather adapter or a schema
    threads           \* position of each worker thread inside a call on Logger

vars == <<logger, level, handlers, propagate, user_middleware, log, nsetup,
          uuids, request, phase, stack, downstream, fault, result, built, threads>>

\* config.cfg.title
cfg_title == "DhakaCelsius"

\* Logger._APP_LOGGER_NAME
APP_LOGGER_NAME == cfg_title \o "_log"

\* values of setup's log_level: level names in either case, and a string that
\* names no level
LogLevels == {"DEBUG", "info", "WARNING", "verbose"}

\* log_level.upper()
Upper(s) ==
    CASE s = "info" -> "INFO"
      [] s = "verbose" -> "VERBOSE"
      [] OTHER -> s

\* logger.setLevel(name): the names the logging module knows; any other string
\* makes it raise ValueError
LevelNames == {"CRITICAL", "FATAL", "ERROR", "WARN", "WARNING", "INFO", "DEBUG", "NOTSET"}

\* the logger state threaded through one operation
LState == [logger |-> logger, level |-> level, handlers |-> handlers,
           propagate |-> propagate, user_middleware |-> user_middleware,
           log |-> log]

Commit(L) ==
    /\ logger' = L.logger
    /\ level' = L.level
    /\ handlers' = L.handlers
    /\ propagate' = L.propagate
    /\ user_middleware' = L.user_middleware
    /\ log' = L.log

\* one call on the application logger: logger.info/warning/error(message, extra={"extra": kwargs})
LogCall(L, levelname, message, exc_info, kwargs) ==
    [L EXCEPT !.log = Append(@, [levelname |-> levelname, message |-> message,
                                 exc_info |-> exc_info, extra |-> kwargs])]

\* Logger.setup that adds its handler without clearing the existing ones
Setup_m(L, app, log_level, json_format) ==
    LET formatter == IF json_format THEN "JSONFormatter" ELSE "Formatter"
        handler == [stream |-> "stdout", formatter |-> formatter]
        L1 == [L EXCEPT !.level = Upper(log_level),
                        !.handlers = Append(@, handler),
                        !.propagate = FALSE,
                        !.logger = APP_LOGGER_NAME,
                        !.user_middleware =
                            IF app THEN Append(@, "LoggingMiddleware") ELSE @]
    IN  IF Upper(log_level) \notin LevelNames THEN L
        ELSE LogCall(L1, "INFO", "Logger initialized with level: " \o log_level,
                     JBool(FALSE), EmptyDict)

\* Logger.setup(app, log_level, json_format); setLevel raises ValueError on an
\* unknown level name, before anything else is changed
Setup(L, app, log_level, json_format) ==
    LET formatter == IF json_format THEN "JSONFormatter" ELSE "Formatter"
        handler == [stream |-> "stdout", formatter |-> formatter]
        L1 == [L EXCEPT !.level = Upper(log_level),
                        !.handlers = Append(<<>>, handler),
                        !.propagate = FALSE,
                        !.logger = APP_LOGGER_NAME,
                        !.user_middleware =
                            IF app THEN Append(@, "LoggingMiddleware") ELSE @]
    IN  IF Upper(log_level) \notin LevelNames THEN L
        ELSE LogCall(L1, "INFO", "Logger initialized with level: " \o log_level,
                     JBool(FALSE), EmptyDict)

\* _get_logger that sets the logger up again on every call
GetLogger_m(L) == Setup(L, FALSE, "DEBUG", TRUE)

\* Logger._get_logger()
GetLogger(L) == IF L.logger = "None" THEN Setup(L, FALSE, "INFO", TRUE) ELSE L

\* Logger.info(message, **kwargs)
LoggerInfo(L, message, kwargs) ==
    LogCall(GetLogger(L), "INFO", message, JBool(FALSE), kwargs)

\* Logger.error that drops the record
LoggerError_m(L, message, exc_info, kwargs) == GetLogger(L)

\* Logger.error(message, exc_info=False, **kwargs)
LoggerError(L, message, exc_info, kwargs) ==
    LogCall(GetLogger(L), "ERROR", message, exc_info, kwargs)

\* str(uuid.uuid4()): the n-th generated value, distinct from all earlier ones
Uuid4(n) == "uuid-" \o ToString(n)

(***************************************************************************)
(* LoggingMiddleware                                                       *)
(***************************************************************************)
\* the requests the services receive
Paths == {"/health"}
Methods == {"GET"}
HeaderIds == {"hdr-1"}
TraceIds == {"trace-1"}
ResponseStatuses == {200, 404}
EndpointFaults == {[type |-> "ValueError", str |-> "boom"]}

NoOutcome == [kind |-> "none"]
NoResult == [op |-> "none"]

\* the duration measured between two datetime.now() calls, rounded to 2 places
DurationMs == [t |-> "float", v |-> "duration_ms"]

RequestStarted(req) == "Request started: " \o req.method \o " " \o req.path
RequestCompleted(status_code) == "Request completed: " \o ToString(status_code)
RequestFailed(exc) == "Request failed: " \o exc.type \o " - " \o exc.str

\* LoggingMiddleware.dispatch up to `await call_next(request)`:
\* [request, frame, L] after the request id is stored and the start is logged
DispatchBefore(L, req, fresh) ==
    LET request_id == IF "X-Request-ID" \in DOMAIN req.headers
                      THEN req.headers["X-Request-ID"]
                      ELSE fresh
        req1 == [req EXCEPT !.state = Merge(@, "request_id" :> JStr(request_id))]
        L1 == LoggerInfo(L, RequestStarted(req),
                         [request_id |-> JStr(request_id),
                          method |-> JStr(req.method),
                          path |-> JStr(req.path)])
    IN  [request |-> req1,
         frame |-> [request_id |-> request_id, pc |-> "call_next"],
         L |-> L1]

\* LoggingMiddleware.dispatch after call_next returned or raised: the log call
\* made, how the frame ends, and what it hands to its caller (the response, or
\* the exception raised again)
DispatchAfter(L, frame, outcome) ==
    IF outcome.kind = "response"
    THEN [L |-> LoggerInfo(L, RequestCompleted(outcome.status_code),
                           [request_id |-> JStr(frame.request_id),
                            status_code |-> JInt(outcome.status_code),
                            duration_ms |-> DurationMs]),
          pc |-> "returned", outcome |-> outcome]
    ELSE [L |-> LoggerError(L, RequestFailed(outcome.exc), JBool(TRUE),
                            [request_id |-> JStr(frame.request_id),
                             duration_ms |-> DurationMs]),
          pc |-> "raised", outcome |-> outcome]

\* the dispatch frames still awaiting call_next, and the innermost of them
Awaiting(frames) == {i \in 1..Len(frames) : frames[i].pc = "call_next"}

Innermost(frames) == CHOOSE i \in Awaiting(frames) : \A j \in Awaiting(frames) : j <= i

(***************************************************************************)
(* core/error.py: the error taxonomy                                       *)
(***************************************************************************)
\* an exception object: type(exc).__name__, exc.__module__, str(exc), the
\* __cause__ chain (innermost last), its extra attributes, whether it carries a
\* __traceback__, and the lines traceback.format_exc(limit=10) gives for it
JExc(e) == [t |-> "exc", v |-> e]

\* <<f(q[1]), ..., f(q[n])>>
Map(q, f(_)) == [i \in 1..Len(q) |-> f(q[i])]

\* sep.join(q) for a sequence of strings
RECURSIVE Join(_, _)
Join(q, sep) ==
    IF q = <<>> THEN ""
    ELSE IF Len(q) = 1 THEN q[1]
    ELSE q[1] \o sep \o Join(Tail(q), sep)

\* the names bound in the namespace of core/error.py: its imports and its own
\* classes and functions
error_py_globals ==
    {"traceback", "Any", "Dict", "Optional", "List", "HTTPException", "Request",
     "status", "JSONResponse", "RequestValidationError", "BaseModel",
     "ValidationError", "Logger", "get_request_logger",
     "ErrorLocation", "ErrorDetail", "ErrorResponse", "AppError", "APIError",
     "handle_api_error", "handle_validation_error",
     "handle_pydantic_validation_error", "handle_app_error",
     "handle_generic_exception", "setup_exception_handlers", "track_error",
     "clear_error_tracking", "ErrorContext"}

\* the parameters of Logger.error that a **kwargs key can collide with
LoggerErrorParams == {"cls", "message"}

\* APIError._default_error_code(status_code)
default_error_code_http(status_code) == "http_" \o ToString(status_code)

\* the table with the 429 slug named after the status text and 502 left out
default_error_code_m(status_code) ==
    CASE status_code = 400 -> "bad_request"
      [] status_code = 401 -> "unauthorized"
      [] status_code = 403 -> "forbidden"
      [] status_code = 404 -> "not_found"
      [] status_code = 409 -> "conflict"
      [] status_code = 422 -> "validation_error"
      [] status_code = 429 -> "too_many_requests"
      [] status_code = 500 -> "internal_server_error"
      [] status_code = 503 -> "service_unavailable"
      [] status_code = 504 -> "gateway_timeout"
      [] OTHER -> default_error_code_http(status_code)

default_error_code(status_code) ==
    CASE status_code = 400 -> "bad_request"
      [] status_code = 401 -> "unauthorized"
      [] status_code = 403 -> "forbidden"
      [] status_code = 404 -> "not_found"
      [] status_code = 409 -> "conflict"
      [] status_code = 422 -> "validation_error"
      [] status_code = 429 -> "rate_limit_exceeded"
      [] status_code = 500 -> "internal_server_error"
      [] status_code = 502 -> "bad_gateway"
      [] status_code = 503 -> "service_unavailable"
      [] status_code = 504 -> "gateway_timeout"
      [] OTHER -> default_error_code_http(status_code)

\* AppError.__init__ that does not keep the wrapped fault
AppErrorInit_m(L, message, original_error, context, error_code) ==
    LET self == [message |-> message,
                 original_error |-> JNull,
                 context |-> IF Truthy(context) THEN context.v ELSE EmptyDict,
                 error_code |-> error_code]
        error_context0 == Merge([error_type |-> JStr("app_error"),
                                 error_code |-> error_code], self.context)
    IN  [exc |-> self,
         L |-> LoggerError(L, "AppError created: " \o message, JBool(FALSE),
                           [error_context |-> JDict(error_context0)])]

\* AppError.__init__(message, original_error, context, error_code):
\* the object built and the logger state after the construction is logged
AppErrorInit(L, message, original_error, context, error_code) ==
    LET self == [message |-> message,
                 original_error |-> original_error,
                 context |-> IF Truthy(context) THEN context.v ELSE EmptyDict,
                 error_code |-> error_code]
        error_context0 == Merge([error_type |-> JStr("app_error"),
                                 error_code |-> error_code], self.context)
        msg == "AppError created: " \o message
    IN  IF original_error.t # "null"
        THEN [exc |-> self,
              L |-> LoggerError(L, msg, original_error,
                      [error_context |-> JDict(Merge(error_context0,
                          [original_error_type |-> JStr(original_error.v.type),
                           original_error_message |-> JStr(original_error.v.str)]))])]
        ELSE [exc |-> self,
              L |-> LoggerError(L, msg, JBool(FALSE),
                      [error_context |-> JDict(error_context0)])]

\* APIError.__init__(status_code, message, error, details, headers, context):
\* the object built, the logger state after the construction is logged, and the
\* exception the logging call raises when a key of details collides with it
APIErrorInit(L, status_code, message, error, details, headers, context) ==
    LET self == [status_code |-> status_code,
                 message |-> message,
                 error |-> IF Truthy(error) THEN error.v
                           ELSE default_error_code(status_code),
                 details |-> IF Truthy(details) THEN details.v ELSE EmptyDict,
                 context |-> IF Truthy(context) THEN context.v ELSE EmptyDict,
                 headers |-> headers]
        error_context == Merge([error_type |-> JStr(self.error),
                                status_code |-> JInt(self.status_code),
                                message |-> JStr(self.message)], self.context)
        collide == DOMAIN self.details \cap (LoggerErrorParams \cup {"error_context"})
        exc_info == IF "exc_info" \in DOMAIN self.details
                    THEN self.details["exc_info"] ELSE JBool(FALSE)
        kwargs == Merge([k \in DOMAIN self.details \ {"exc_info"} |-> self.details[k]],
                        [error_context |-> JDict(error_context)])
    IN  IF collide # {}
        THEN [raised |-> "TypeError", exc |-> self, L |-> L]
        ELSE [raised |-> "None", exc |-> self,
              L |-> LoggerError(L, "API Error Created: " \o self.error, exc_info, kwargs)]

\* internal_server_error that spreads the context into the details as well
internal_server_error_m(L, message, details, context) ==
    APIErrorInit(L, 500, message, JNull,
                 JDict(Merge(details.v, IF Truthy(context) THEN context.v ELSE EmptyDict)),
                 JNull, context)

\* APIError.internal_server_error(message, **kwargs)
internal_server_error(L, message, details, context) ==
    APIErrorInit(L, 500, message, JNull, details, JNull, context)

\* the formatted traceback kept whole
traceback_summary_m(tb_summary) == tb_summary

\* the tail of the formatted traceback kept by from_exception
traceback_summary(tb_summary) ==
    IF Len(tb_summary) > 5
    THEN SubSeq(tb_summary, Len(tb_summary) - 4, Len(tb_summary))
    ELSE tb_summary

\* from_exception that always takes the status-derived slug
from_exception_m(L, exc, status_code, context) ==
    LET error_context0 == IF Truthy(context) THEN context.v ELSE EmptyDict
        exc_details0 == [type |-> JStr(exc.type), module |-> JStr(exc.module)]
        exc_details1 ==
            IF exc.causes # <<>>
            THEN Merge(exc_details0,
                       [cause |-> JDict([type |-> JStr(exc.causes[1].type),
                                         message |-> JStr(exc.causes[1].str)])])
            ELSE exc_details0
        error_context ==
            IF "context" \in DOMAIN exc.attrs /\ exc.attrs["context"].t = "dict"
            THEN Merge(error_context0, exc.attrs["context"].v)
            ELSE error_context0
        exc_details ==
            Merge(exc_details1,
                  [traceback_summary |->
                      JList(Map(traceback_summary(exc.format_exc), JStr))])
    IN  APIErrorInit(L, status_code,
                     IF exc.str # "" THEN exc.str ELSE "An unexpected error occurred",
                     JStr(default_error_code(status_code)), JDict(exc_details),
                     JNull, JDict(error_context))

\* APIError.from_exception(exc, status_code, context)
from_exception(L, exc, status_code, context) ==
    LET error_context0 == IF Truthy(context) THEN context.v ELSE EmptyDict
        exc_details0 == [type |-> JStr(exc.type), module |-> JStr(exc.module)]
        exc_details1 ==
            IF exc.causes # <<>>
            THEN Merge(exc_details0,
                       [cause |-> JDict([type |-> JStr(exc.causes[1].type),
                                         message |-> JStr(exc.causes[1].str)])])
            ELSE exc_details0
        error_context ==
            IF "context" \in DOMAIN exc.attrs /\ exc.attrs["context"].t = "dict"
            THEN Merge(error_context0, exc.attrs["context"].v)
            ELSE error_context0
        exc_details ==
            Merge(exc_details1,
                  [traceback_summary |->
                      JList(Map(traceback_summary(exc.format_exc), JStr))])
        error_code ==
            IF "error_code" \in DOMAIN exc.attrs /\ Truthy(exc.attrs["error_code"])
            THEN exc.attrs["error_code"].v
            ELSE default_error_code(status_code)
    IN  APIErrorInit(L, status_code,
                     IF exc.str # "" THEN exc.str ELSE "An unexpected error occurred",
                     JStr(error_code), JDict(exc_details), JNull, JDict(error_context))

(***************************************************************************)
(* core/error.py: the exception-to-response mapper                         *)
(***************************************************************************)
\* a pydantic model instance: its fields in declaration order, unset ones None
JModel(fields) == [t |-> "model", v |-> fields]

\* ErrorDetail(location=, message=, type=)
ErrorDetail(location, message, type) ==
    JModel([location |-> location, message |-> message, type |-> type,
            code |-> JNull])

\* ErrorResponse(code=, message=, error=, request_id=, trace_id=, details=, errors=):
\* the dicts given as errors are validated into ErrorDetail models
ErrorResponse(code, message, error, request_id, trace_id, details, errors) ==
    JModel([code |-> JInt(code), message |-> JStr(message), error |-> JStr(error),
            request_id |-> request_id, trace_id |-> trace_id, details |-> details,
            errors |-> IF errors.t = "list"
                       THEN JList([i \in 1..Len(errors.v) |-> JModel(errors.v[i].v)])
                       ELSE errors])

\* BaseModel.model_dump(exclude_none=...) / .dict(exclude_none=...): fields of the
\* model and of the models nested in it; the values of a plain dict are kept
RECURSIVE model_dump(_, _)
model_dump(x, exclude_none) ==
    CASE x.t = "model" ->
            JDict([k \in {f \in DOMAIN x.v : ~(exclude_none /\ x.v[f].t = "null")}
                      |-> model_dump(x.v[k], exclude_none)])
      [] x.t = "list" ->
            JList([i \in 1..Len(x.v) |-> model_dump(x.v[i], exclude_none)])
      [] OTHER -> x

\* JSONResponse(status_code=, content=, headers=)
JSONResponse(status_code, content, headers) ==
    [status_code |-> status_code, content |-> content, headers |-> headers]

NoResponse == [status_code |-> -1, content |-> JNull, headers |-> EmptyDict]

Returned(op, L, response, from) ==
    [L |-> L,
     result |-> [op |-> op, kind |-> "response", exc_type |-> "None",
                 response |-> response, delegated |-> JNull, log_from |-> from]]

Raised(op, L, exc_type, from) ==
    [L |-> L,
     result |-> [op |-> op, kind |-> "raised", exc_type |-> exc_type,
                 response |-> NoResponse, delegated |-> JNull, log_from |-> from]]

\* getattr(request.state, k, None) for each k
trace_context(req, keys) == [k \in keys |-> Get(req.state, k)]

\* dict(request.path_params), dict(request.query_params)
request_data(req) ==
    JDict([path_params |-> JDict(req.path_params),
           query_params |-> JDict(req.query_params)])

\* get_request_logger(request): the adapter is bound to Logger._get_logger()
get_request_logger(L, req) == GetLogger(L)

\* RequestLogger.info / warning / error(message, **kwargs)
RequestLoggerCall(L, req, levelname, message, exc_info, kwargs) ==
    IF "request_id" \notin DOMAIN req.state
    THEN [raised |-> "AttributeError", L |-> L]
    ELSE [raised |-> "None",
          L |-> LogCall(L, levelname, message, exc_info,
                        Merge(kwargs, [request_id |-> req.state["request_id"]]))]

\* handle_api_error(request, exc): line 282 calls get_logger, a name the module
\* neither defines nor imports, so the call raises NameError before anything
\* else of the body runs
handle_api_error(L, req, exc) ==
    IF "get_logger" \notin error_py_globals
    THEN Raised("handle_api_error", L, "NameError", Len(L.log))
    ELSE LET request_logger == get_request_logger(L, req)
             tc == trace_context(req, {"request_id", "trace_id", "span_id"})
             error_context == Merge([status_code |-> JInt(exc.status_code),
                                     error_type |-> JStr(exc.error),
                                     path |-> JStr(req.path),
                                     method |-> JStr(req.method)], exc.context)
             lg == RequestLoggerCall(request_logger, req, "ERROR",
                       "API Error: " \o exc.error \o " - " \o exc.message,
                       JBool(FALSE),
                       Merge([error_context |-> JDict(error_context)], tc))
             response == ErrorResponse(exc.status_code, exc.message, exc.error,
                             tc["request_id"], tc["trace_id"],
                             JDict(exc.details), JNull)
         IN  IF lg.raised # "None"
             THEN Raised("handle_api_error", lg.L, lg.raised, Len(L.log))
             ELSE Returned("handle_api_error", lg.L,
                      JSONResponse(exc.status_code, model_dump(response, TRUE),
                                   IF Truthy(exc.headers) THEN exc.headers.v
                                   ELSE EmptyDict),
                      Len(L.log))

\* the path joined with dots
error_location_m(error) == Join(Map(error.loc, Fmt), ".")

\* " -> ".join(str(x) for x in error.get("loc", []))
error_location(error) == Join(Map(error.loc, Fmt), " -> ")

\* the loop over exc.errors() shared by the two validation handlers:
\* ErrorDetail(...).model_dump() of each error, in order
error_details(errors) ==
    [i \in 1..Len(errors) |->
        model_dump(ErrorDetail(JStr(error_location(errors[i])),
                               JStr(errors[i].msg), JStr(errors[i].type)), FALSE)]

\* handle_validation_error(request, exc)
handle_validation_error(L, req, errors) ==
    LET request_logger == get_request_logger(L, req)
        details == error_details(errors)
        tc == trace_context(req, {"request_id", "trace_id"})
        lg == RequestLoggerCall(request_logger, req, "WARNING",
                  "Request validation error", JBool(FALSE),
                  Merge([error_context |->
                            JDict([error_type |-> JStr("validation_error"),
                                   path |-> JStr(req.path),
                                   method |-> JStr(req.method),
                                   error_count |-> JInt(Len(details))]),
                         validation_errors |-> JList(details),
                         request_data |-> request_data(req)], tc))
        response == ErrorResponse(422, "Request validation error",
                        "validation_error", tc["request_id"], tc["trace_id"],
                        JNull, JList(details))
    IN  IF lg.raised # "None"
        THEN Raised("handle_validation_error", lg.L, lg.raised, Len(L.log))
        ELSE Returned("handle_validation_error", lg.L,
                 JSONResponse(422, model_dump(response, TRUE), EmptyDict),
                 Len(L.log))

\* handle_pydantic_validation_error(request, exc)
handle_pydantic_validation_error(L, req, errors) ==
    LET request_logger == get_request_logger(L, req)
        details == error_details(errors)
        tc == trace_context(req, {"request_id", "trace_id"})
        lg == RequestLoggerCall(request_logger, req, "WARNING",
                  "Pydantic validation error", JBool(FALSE),
                  Merge([error_context |->
                            JDict([error_type |-> JStr("pydantic_validation_error"),
                                   path |-> JStr(req.path),
                                   method |-> JStr(req.method),
                                   error_count |-> JInt(Len(details))]),
                         validation_errors |-> JList(details)], tc))
        response == ErrorResponse(422, "Data validation error",
                        "validation_error", tc["request_id"], tc["trace_id"],
                        JNull, JList(details))
    IN  IF lg.raised # "None"
        THEN Raised("handle_pydantic_validation_error", lg.L, lg.raised, Len(L.log))
        ELSE Returned("handle_pydantic_validation_error", lg.L,
                 JSONResponse(422, model_dump(response, TRUE), EmptyDict),
                 Len(L.log))

\* the APIError a handler hands to handle_api_error, and what that call gives
Delegate(op, L, req, api_error, from) ==
    LET h == handle_api_error(L, req, api_error)
    IN  [L |-> h.L,
         result |-> [h.result EXCEPT !.op = op, !.log_from = from,
                                     !.delegated = [t |-> "api_error", v |-> api_error]]]

\* handle_app_error(request, exc)
handle_app_error(L, req, exc) ==
    LET request_logger == get_request_logger(L, req)
        tc == trace_context(req, {"request_id", "trace_id"})
        error_context0 == Merge([error_type |-> JStr("app_error"),
                                 error_code |-> exc.error_code,
                                 path |-> JStr(req.path),
                                 method |-> JStr(req.method)], exc.context)
        error_context ==
            IF exc.original_error.t # "null"
            THEN Merge(error_context0,
                   [original_error_type |-> JStr(exc.original_error.v.type),
                    original_error_message |-> JStr(exc.original_error.v.str),
                    original_error_module |-> JStr(exc.original_error.v.module)])
            ELSE error_context0
        lg == RequestLoggerCall(request_logger, req, "ERROR",
                  "Application Error: " \o exc.message,
                  IF exc.original_error.t # "null" THEN exc.original_error
                  ELSE JBool(FALSE),
                  Merge([error_context |-> JDict(error_context),
                         request_data |-> request_data(req)], tc))
        a == internal_server_error(lg.L, "An internal server error occurred",
                 JDict([app_error_message |-> JStr(exc.message),
                        app_error_code |-> exc.error_code]),
                 JDict(error_context))
        api_error == [a.exc EXCEPT !.details = Merge(@, tc)]
    IN  IF lg.raised # "None"
        THEN Raised("handle_app_error", lg.L, lg.raised, Len(L.log))
        ELSE IF a.raised # "None"
        THEN Raised("handle_app_error", a.L, a.raised, Len(L.log))
        ELSE Delegate("handle_app_error", a.L, req, api_error, Len(L.log))

\* handle_generic_exception(request, exc)
handle_generic_exception(L, req, exc) ==
    LET request_logger == get_request_logger(L, req)
        tc == trace_context(req, {"request_id", "trace_id"})
        frame_info ==
            IF exc.tb # <<>>
            THEN [file |-> JStr(exc.tb[Len(exc.tb)].filename),
                  line |-> JInt(exc.tb[Len(exc.tb)].lineno),
                  function |-> JStr(exc.tb[Len(exc.tb)].name),
                  code |-> JStr(exc.tb[Len(exc.tb)].line)]
            ELSE [file |-> JStr("unknown"), line |-> JInt(0),
                  function |-> JStr("unknown")]
        chain == <<[type |-> exc.type, str |-> exc.str]>> \o exc.causes
        exception_chain ==
            [i \in 1..Len(exc.causes) |->
                JDict([type |-> JStr(chain[i].type), message |-> JStr(chain[i].str)])]
        error_context ==
            Merge([error_type |-> JStr("unhandled_exception"),
                   exception_class |-> JStr(exc.type),
                   exception_module |-> JStr(exc.module),
                   path |-> JStr(req.path),
                   method |-> JStr(req.method),
                   exception_chain |-> IF exception_chain # <<>>
                                       THEN JList(exception_chain) ELSE JNull],
                  frame_info)
        lg == RequestLoggerCall(request_logger, req, "ERROR",
                  "Unhandled exception: " \o exc.type \o " - " \o exc.str,
                  JExc(exc),
                  Merge([error_context |-> JDict(error_context),
                         request_data |-> request_data(req)], tc))
        a == from_exception(lg.L, exc, 500, JDict(Merge(error_context, tc)))
    IN  IF lg.raised # "None"
        THEN Raised("handle_generic_exception", lg.L, lg.raised, Len(L.log))
        ELSE IF a.raised # "None"
        THEN Raised("handle_generic_exception", a.L, a.raised, Len(L.log))
        ELSE Delegate("handle_generic_exception", a.L, req, a.exc, Len(L.log))

(***************************************************************************)
(* Actions                                                                 *)
(***************************************************************************)
\* the faults raised while a request is processed
Statuses == {400, 401, 403, 404, 409, 422, 429, 500, 502, 503, 504, 200, 418, 599}
ErrorSlugs == {JNull, JStr("quota_exceeded")}
DetailMaps == {JNull, JDict([resource |-> JStr("widget")]),
               JDict([message |-> JStr("shadowed")])}
ContextMaps == {JNull, JDict([user_id |-> JStr("u1")])}
Messages == {"X failed"}
ErrorCodes == {JNull, JStr("E42")}

Frame == [filename |-> "service.py", lineno |-> 7, name |-> "fetch", line |-> "raise"]

\* the lines traceback.format_exc(limit=10) gives: n lines, numbered
TbLines(n) == [i \in 1..n |-> "tb line " \o ToString(i)]

PlainExc(type, str, causes, attrs, tb, nlines) ==
    [type |-> type, module |-> "builtins", str |-> str, causes |-> causes,
     attrs |-> attrs, tb |-> tb, format_exc |-> TbLines(nlines)]

OriginalErrors == {PlainExc("KeyError", "missing", <<>>, EmptyDict, <<Frame>>, 4)}

GenericFaults ==
    {PlainExc("ValueError", "boom", <<>>, EmptyDict, <<Frame>>, 4),
     PlainExc("RuntimeError", "", <<[type |-> "OSError", str |-> "disk"]>>,
              [error_code |-> JStr("E42"), context |-> JDict([job |-> JStr("j1")])],
              <<>>, 7)}

\* exceptions handed to APIError.from_exception directly: with and without an
\* error_code attribute (a code, the empty string, None), with and without text
ExcInputs ==
    GenericFaults \cup
    {PlainExc("LookupError", "no such key", <<>>, [error_code |-> JStr("")], <<Frame>>, 5),
     PlainExc("OSError", "", <<>>, [error_code |-> JNull], <<Frame>>, 6),
     PlainExc("QuotaError", "over quota", <<>>, [error_code |-> JStr("quota_exceeded")],
              <<Frame>>, 12)}

\* status.HTTP_500_INTERNAL_SERVER_ERROR, the default of from_exception's status_code
HTTP_500_INTERNAL_SERVER_ERROR == 500

\* the TypeError raised when a keyword argument is given twice
TypeErrorExc ==
    PlainExc("TypeError", "got multiple values for keyword argument", <<>>,
             EmptyDict, <<Frame>>, 4)

ErrAB == [loc |-> <<JStr("a"), JStr("b")>>, msg |-> "field required", type |-> "missing"]
ErrC == [loc |-> <<JStr("c")>>, msg |-> "not an integer", type |-> "int_parsing"]
ErrItem == [loc |-> <<JStr("body"), JStr("items"), JInt(0)>>, msg |-> "too short",
            type |-> "string_too_short"]

ValidationErrorLists ==
    {<<>>, <<ErrC>>, <<ErrAB, ErrC>>, <<ErrC, ErrAB>>, <<ErrItem, ErrAB, ErrC>>}

NoFault == [kind |-> "none"]

\* nothing constructed directly yet
NoBuilt == [op |-> "none"]

\* the worker threads of the server's thread pool, none of them inside Logger
Threads == 1..MaxThreads
IdleThread == [pc |-> "idle", op |-> "none", ran |-> 0, unset |-> FALSE,
               got |-> "None", calls |-> <<>>]

\* what a worker thread calls: the classmethods of Logger and get_request_logger
LoggerMethods == {"info", "error", "warning", "debug", "critical", "get_request_logger"}

\* levelname of the record a classmethod of Logger logs
MethodLevel(op) ==
    CASE op = "info" -> "INFO"
      [] op = "error" -> "ERROR"
      [] op = "warning" -> "WARNING"
      [] op = "debug" -> "DEBUG"
      [] op = "critical" -> "CRITICAL"

\* _get_logger that runs setup whatever the singleton is
AfterCheck_m(singleton) == "setLevel"

\* _get_logger: where 'if cls._logger is None' sends the caller, into setup or
\* to the return
AfterCheck(singleton) == IF singleton = "None" THEN "setLevel" ELSE "return"

\* the handler setup() creates when called with its defaults
DefaultHandler == [stream |-> "stdout", formatter |-> "JSONFormatter"]

\* one record a thread passes to the application logger
Emitted(levelname, message) == [levelname |-> levelname, message |-> message]

(***************************************************************************)
(* app/weather: the upstream weather adapter and the response schemas      *)
(***************************************************************************)
\* what one call to the upstream provider gives: a reading in tenths of a
\* degree Celsius, or an exception
TimeoutExc == PlainExc("Timeout", "Connection timed out", <<>>, EmptyDict, <<Frame>>, 4)
HTTPErrorExc(status_code) ==
    PlainExc("HTTPError", "HTTP Error: " \o ToString(status_code), <<>>,
             [status_code |-> JInt(status_code)], <<Frame>>, 4)
OtherExc == PlainExc("Exception", "Something went wrong", <<>>, EmptyDict, <<Frame>>, 4)

UpstreamOutcomes ==
    {[kind |-> "ok", temp10 |-> t] : t \in {0, 140, 255}} \cup
    {[kind |-> "raises", exc |-> e] :
        e \in {TimeoutExc, HTTPErrorExc(404), HTTPErrorExc(401), HTTPErrorExc(500),
               OtherExc}}

Locations == {"Dhaka", "Sylhet"}

\* a reading in tenths of a degree rounded to whole degrees, halves upwards
RoundDegrees(temp10) == (temp10 + 5) \div 10

\* WeatherService.get_weather_data(location): upstream is what the provider
\* would answer to successive calls; calls is how many of them were made
get_weather_data(L, location, upstream) ==
    LET first == upstream[1]
        exc == first.exc
        http == IF first.kind = "raises" /\ exc.type = "HTTPError"
                THEN exc.attrs["status_code"].v ELSE 0
        classified(a) == [kind |-> "raised", exc_class |-> "APIError", raised |-> a.raised,
                          exc |-> a.exc, calls |-> 1, L |-> a.L]
    IN  IF first.kind = "ok"
        THEN [kind |-> "returned", calls |-> 1, L |-> L,
              value |-> [temperature |-> JStr(ToString(RoundDegrees(first.temp10))),
                         temp_unit |-> JStr("c")]]
        ELSE IF exc.type = "Timeout"
        THEN classified(APIErrorInit(L, 504, "Weather API timed out", JNull, JNull,
                                     JNull, JNull))
        ELSE IF http = 404
        THEN classified(APIErrorInit(L, 404,
                                     "Weather data for " \o location \o " not found",
                                     JNull, JNull, JNull, JNull))
        ELSE IF http = 401
        THEN classified(APIErrorInit(L, 400, "Invalid API key", JNull, JNull, JNull,
                                     JNull))
        ELSE LET a == AppErrorInit(L, "Failed to fetch weather data", JExc(exc), JNull,
                                   JNull)
             IN  [kind |-> "raised", exc_class |-> "AppError", raised |-> "None",
                  exc |-> a.exc, calls |-> 1, L |-> a.L]

\* a float value, by its literal
JFloat(literal) == [t |-> "float", v |-> literal]

\* the integers a string may spell
IntLiterals == 0..999

\* int(s) for a string of decimal digits; None for any other string
ParseInt(s) ==
    IF \E n \in IntLiterals : ToString(n) = s
    THEN JInt(CHOOSE n \in IntLiterals : ToString(n) = s)
    ELSE JNull

\* pydantic's validation of one value against a field type, in its default mode:
\* a str field takes strings only; an int field takes ints, bools and strings of
\* digits, which it converts
ValidateField(type, v) ==
    CASE type = "str" ->
            IF v.t = "str" THEN [ok |-> TRUE, v |-> v]
            ELSE [ok |-> FALSE, type |-> "string_type"]
      [] type = "int" ->
            IF v.t = "int" THEN [ok |-> TRUE, v |-> v]
            ELSE IF v.t = "bool" THEN [ok |-> TRUE, v |-> JInt(IF v.v THEN 1 ELSE 0)]
            ELSE IF v.t = "str" /\ ParseInt(v.v) # JNull
            THEN [ok |-> TRUE, v |-> ParseInt(v.v)]
            ELSE [ok |-> FALSE,
                  type |-> IF v.t = "str" THEN "int_parsing" ELSE "int_type"]

\* BaseModel.__init__(**data) for a model declaring the required fields of
\* schema, a sequence of <<name, type>>: keys that name no field are ignored
BaseModelInit(schema, data) ==
    LET check(i) == IF schema[i][1] \in DOMAIN data
                    THEN ValidateField(schema[i][2], data[schema[i][1]])
                    ELSE [ok |-> FALSE, type |-> "missing"]
        bad == {i \in 1..Len(schema) : ~check(i).ok}
        names == {schema[i][1] : i \in 1..Len(schema)}
        index(n) == CHOOSE i \in 1..Len(schema) : schema[i][1] = n
    IN  IF bad = {}
        THEN [raised |-> "None",
              model |-> JModel([n \in names |-> check(index(n)).v])]
        ELSE [raised |-> "ValidationError",
              errors |-> {[loc |-> schema[i][1], type |-> check(i).type] : i \in bad}]

\* class TemperatureData(BaseModel)
TemperatureDataFields == <<<<"temperature", "str">>, <<"temp_unit", "str">>>>
TemperatureData(data) == BaseModelInit(TemperatureDataFields, data)

\* class HealthResponseSchema(BaseModel)
HealthResponseSchemaFields == <<<<"status", "str">>, <<"status_code", "int">>>>
HealthResponseSchema(data) == BaseModelInit(HealthResponseSchemaFields, data)

\* a key given or left out
Absent == [t |-> "absent"]
Field(k, v) == IF v = Absent THEN EmptyDict ELSE k :> v

\* records handed to TemperatureData
TemperatureRecords ==
    {Field("temperature", t) @@ Field("temp_unit", u) :
        t \in {JStr("25"), JStr("14"), JInt(25), Absent},
        u \in {JStr("c"), JStr("f"), JStr("celsius"), JInt(1), Absent}}

\* the further keys of the richer health record
RicherFields ==
    [timestamp |-> JStr("2307152230"), version |-> JStr("1.0.0"),
     external_services |-> JDict([weather_service |-> JBool(TRUE)]),
     response_time |-> JFloat("88.0")]

\* records handed to HealthResponseSchema
HealthRecords ==
    {Field("status", st) @@ Field("status_code", c) @@ more :
        st \in {JStr("healthy"), JStr("unhealthy")},
        c \in {JInt(200), JInt(500), JStr("not_a_number"), JStr("200"), Absent},
        more \in {EmptyDict, RicherFields}}

(***************************************************************************)
(* core/error.py: track_error, clear_error_tracking, ErrorContext          *)
(***************************************************************************)
\* the deepest nesting of ErrorContext blocks
MaxDepth == 2

\* the attributes class Logger defines: looking up any other name on it raises
\* AttributeError
LoggerAttributes ==
    {"_logger", "_APP_LOGGER_NAME", "setup", "_get_logger", "info", "error",
     "warning", "debug", "critical"}

\* no global error context is set
NoContext == [t |-> "unset"]

\* no exception: exc_type is None
NoExc == [type |-> "None", str |-> ""]

\* the process state a block acts on: the global error context and the logger
GState(ctx, L) == [error_context |-> ctx, L |-> L]

\* Logger.set_error_context(**context), as track_error's docstring describes it
set_error_context(G, context) == [G EXCEPT !.error_context = JDict(context)]

\* Logger.clear_error_context(), as clear_error_tracking's docstring describes it
clear_error_context(G) == [G EXCEPT !.error_context = NoContext]

\* Logger.log_exception(exc, message, **kwargs): one error record with the
\* exception attached
log_exception(G, exc, message, kwargs) ==
    [G EXCEPT !.L = LoggerError(G.L, message, JBool(TRUE),
                                Merge(kwargs, [exception |-> JStr(exc.type)]))]

\* track_error(error_type, **context)
track_error(G, error_type, context) ==
    IF "set_error_context" \notin LoggerAttributes
    THEN [raised |-> "AttributeError", G |-> G]
    ELSE [raised |-> "None",
          G |-> set_error_context(G, Merge([error_type |-> JStr(error_type)], context))]

\* clear_error_tracking()
clear_error_tracking(G) ==
    IF "clear_error_context" \notin LoggerAttributes
    THEN [raised |-> "AttributeError", G |-> G]
    ELSE [raised |-> "None", G |-> clear_error_context(G)]

\* ErrorContext.__enter__
ErrorContextEnter(G, self) == track_error(G, self.context_name, self.context)

\* ErrorContext.__exit__(exc_type, exc_val, exc_tb); exc is NoExc when the body
\* completed.  suppress is the value returned
ErrorContextExit(G, self, exc) ==
    LET logged ==
            IF exc = NoExc THEN [raised |-> "None", G |-> G]
            ELSE IF "log_exception" \notin LoggerAttributes
            THEN [raised |-> "AttributeError", G |-> G]
            ELSE [raised |-> "None",
                  G |-> log_exception(G, exc, "Error in " \o self.context_name,
                            [error_context |->
                                JDict(Merge([exit_context |-> JStr(self.context_name)],
                                            self.context))])]
        cleared == clear_error_tracking(logged.G)
    IN  IF logged.raised # "None"
        THEN [raised |-> logged.raised, suppress |-> FALSE, G |-> logged.G]
        ELSE [raised |-> cleared.raised, suppress |-> FALSE, G |-> cleared.G]

\* what the body of a block does: complete, raise, or run an inner block and
\* then complete
BodyFaults == {[type |-> "ValueError", str |-> "boom"]}
ContextNames == {"db_query", "cache_fill"}
ContextKwargs == {EmptyDict, [user_id |-> JStr("u1")]}

RECURSIVE BlocksOfDepth(_)
BlocksOfDepth(d) ==
    LET leaves == {[kind |-> "returns"]} \cup
                  {[kind |-> "raises", exc |-> e] : e \in BodyFaults}
        bodies == IF d <= 1 THEN leaves
                  ELSE leaves \cup {[kind |-> "block", block |-> b] :
                                       b \in BlocksOfDepth(d - 1)}
    IN  {[context_name |-> n, context |-> c, body |-> body] :
            n \in ContextNames, c \in ContextKwargs, body \in bodies}

\* with ErrorContext(context_name, **context): body
\* entered lists the global error context each body that ran started with,
\* outermost first; exc is the exception that leaves the statement
RECURSIVE WithErrorContext(_, _)
WithErrorContext(G, block) ==
    LET self == [context_name |-> block.context_name, context |-> block.context]
        enter == ErrorContextEnter(G, self)
        inner == IF block.body.kind = "block"
                 THEN WithErrorContext(enter.G, block.body.block)
                 ELSE [exc |-> IF block.body.kind = "raises" THEN block.body.exc
                               ELSE NoExc,
                       entered |-> <<>>, exits |-> <<>>, G |-> enter.G]
        exit == ErrorContextExit(inner.G, self, inner.exc)
        about(e) == e.message = "Error in " \o block.context_name
        exits == Append(inner.exits, [context_name |-> block.context_name,
                                      exc |-> inner.exc,
                                      nlog |-> Len(SelectSeq(exit.G.L.log, about))
                                                 - Len(SelectSeq(inner.G.L.log, about)),
                                      after |-> exit.G.error_context])
    IN  IF enter.raised # "None"
        THEN \* __enter__ raised: the body does not run and __exit__ is not called
             [exc |-> [type |-> enter.raised, str |-> "set_error_context"],
              entered |-> <<>>, exits |-> <<>>, G |-> enter.G]
        ELSE [exc |-> IF exit.raised # "None"
                      THEN [type |-> exit.raised, str |-> "clear_error_context"]
                      ELSE IF exit.suppress THEN NoExc ELSE inner.exc,
              entered |-> <<enter.G.error_context>> \o inner.entered,
              exits |-> exits,
              G |-> exit.G]

Init ==
    /\ logger = "None"
    /\ level = "NOTSET"
    /\ handlers = <<>>
    /\ propagate = TRUE
    /\ user_middleware = <<>>
    /\ log = <<>>
    /\ nsetup = 0
    /\ uuids = 0
    /\ request = [headers |-> EmptyDict, state |-> EmptyDict,
                  path |-> "/health", method |-> "GET",
                  path_params |-> EmptyDict, query_params |-> EmptyDict]
    /\ phase = "idle"
    /\ stack = <<>>
    /\ downstream = NoOutcome
    /\ fault = NoFault
    /\ result = NoResult
    /\ built = NoBuilt
    /\ threads = [t \in Threads |-> IdleThread]

\* any explicit call of Logger.setup
LoggerSetup ==
    /\ nsetup < MaxSetups
    /\ \E app \in BOOLEAN, log_level \in LogLevels, json_format \in BOOLEAN :
          Commit(Setup(LState, app, log_level, json_format))
    /\ nsetup' = nsetup + 1
    /\ UNCHANGED <<built, threads>>
    /\ UNCHANGED <<uuids, request, phase, stack, downstream, fault, result>>

\* main.py: Logger.setup(app=app, json_format=True)
AppStart ==
    /\ phase = "idle"
    /\ nsetup = 0
    /\ \A t \in Threads : threads[t] = IdleThread
    /\ Commit(Setup(LState, TRUE, "INFO", TRUE))
    /\ nsetup' = nsetup + 1
    /\ UNCHANGED <<built, threads>>
    /\ UNCHANGED <<uuids, request, phase, stack, downstream, fault, result>>

\* the server receives a request
NewRequest ==
    /\ phase \in {"idle", "done"}
    /\ \E hdr \in HeaderIds \cup {"None"}, trace \in TraceIds \cup {"None"},
          path \in Paths, method \in Methods :
          request' = [headers |-> IF hdr = "None" THEN EmptyDict
                                  ELSE "X-Request-ID" :> hdr,
                      state |-> IF trace = "None" THEN EmptyDict
                                ELSE "trace_id" :> JStr(trace),
                      path |-> path, method |-> method,
                      path_params |-> EmptyDict, query_params |-> EmptyDict]
    /\ phase' = "in"
    /\ stack' = <<>>
    /\ downstream' = NoOutcome
    /\ fault' = NoFault
    /\ result' = NoResult
    /\ log' = <<>>
    /\ UNCHANGED <<built, threads>>
    /\ UNCHANGED <<logger, level, handlers, propagate, user_middleware, nsetup, uuids>>

\* the request enters the next installed LoggingMiddleware
DispatchEnter ==
    /\ phase = "in"
    /\ fault = NoFault
    /\ Len(stack) < Len(user_middleware)
    /\ uuids < MaxUuids
    /\ LET d == DispatchBefore(LState, request, Uuid4(uuids + 1))
       IN  /\ request' = d.request
           /\ stack' = Append(stack, d.frame)
           /\ Commit(d.L)
    /\ uuids' = uuids + 1
    /\ UNCHANGED <<built, threads>>
    /\ UNCHANGED <<nsetup, phase, downstream, fault, result>>

\* call_next of the innermost middleware reaches the route, which returns a response
EndpointReturns ==
    /\ phase = "in"
    /\ fault = NoFault
    /\ Len(stack) = Len(user_middleware)
    /\ \E status_code \in ResponseStatuses :
          downstream' = [kind |-> "response", status_code |-> status_code]
    /\ phase' = IF stack = <<>> THEN "done" ELSE "out"
    /\ UNCHANGED <<built, threads>>
    /\ UNCHANGED <<logger, level, handlers, propagate, user_middleware, log,
                   nsetup, uuids, request, stack, fault, result>>

\* ... or raises
EndpointRaises ==
    /\ phase = "in"
    /\ fault = NoFault
    /\ Len(stack) = Len(user_middleware)
    /\ \E exc \in EndpointFaults :
          downstream' = [kind |-> "exception", exc |-> exc]
    /\ phase' = IF stack = <<>> THEN "done" ELSE "out"
    /\ UNCHANGED <<built, threads>>
    /\ UNCHANGED <<logger, level, handlers, propagate, user_middleware, log,
                   nsetup, uuids, request, stack, fault, result>>

\* call_next returned or raised in the innermost dispatch still awaiting it
DispatchExit ==
    /\ phase = "out"
    /\ Awaiting(stack) # {}
    /\ LET i == Innermost(stack)
           d == DispatchAfter(LState, stack[i], downstream)
       IN  /\ Commit(d.L)
           /\ downstream' = d.outcome
           /\ stack' = [stack EXCEPT ![i].pc = d.pc]
           /\ phase' = IF Awaiting(stack) = {i} THEN "done" ELSE "out"
    /\ UNCHANGED <<built, threads>>
    /\ UNCHANGED <<nsetup, uuids, request, fault, result>>

\* the code serving the request constructs an APIError
RaiseAPIError ==
    /\ phase = "in"
    /\ fault = NoFault
    /\ \E status_code \in Statuses, message \in Messages, error \in ErrorSlugs,
          details \in DetailMaps, context \in ContextMaps :
          LET a == APIErrorInit(LState, status_code, message, error, details,
                                JNull, context)
          IN  /\ Commit(a.L)
              /\ fault' = IF a.raised = "None"
                          THEN [kind |-> "api", exc |-> a.exc,
                                args |-> [status_code |-> status_code,
                                          error |-> error]]
                          ELSE [kind |-> "generic", exc |-> TypeErrorExc]
    /\ UNCHANGED <<built, threads>>
    /\ UNCHANGED <<nsetup, uuids, request, phase, stack, downstream, result>>

\* ... or an AppError
RaiseAppError ==
    /\ phase = "in"
    /\ fault = NoFault
    /\ \E message \in Messages, original_error \in {JNull} \cup {JExc(e) : e \in OriginalErrors},
          context \in ContextMaps, error_code \in ErrorCodes :
          LET a == AppErrorInit(LState, message, original_error, context, error_code)
          IN  /\ Commit(a.L)
              /\ fault' = [kind |-> "app", exc |-> a.exc]
    /\ UNCHANGED <<built, threads>>
    /\ UNCHANGED <<nsetup, uuids, request, phase, stack, downstream, result>>

\* the framework rejects the request (RequestValidationError)
RaiseRequestValidation ==
    /\ phase = "in"
    /\ fault = NoFault
    /\ \E errors \in ValidationErrorLists :
          fault' = [kind |-> "request_validation", errors |-> errors]
    /\ UNCHANGED <<built, threads>>
    /\ UNCHANGED <<logger, level, handlers, propagate, user_middleware, log,
                   nsetup, uuids, request, phase, stack, downstream, result>>

\* a data model rejects a value (pydantic ValidationError)
RaisePydanticValidation ==
    /\ phase = "in"
    /\ fault = NoFault
    /\ \E errors \in ValidationErrorLists :
          fault' = [kind |-> "pydantic_validation", errors |-> errors]
    /\ UNCHANGED <<built, threads>>
    /\ UNCHANGED <<logger, level, handlers, propagate, user_middleware, log,
                   nsetup, uuids, request, phase, stack, downstream, result>>

\* any other exception is raised
RaiseGeneric ==
    /\ phase = "in"
    /\ fault = NoFault
    /\ \E exc \in GenericFaults :
          fault' = [kind |-> "generic", exc |-> exc]
    /\ UNCHANGED <<built, threads>>
    /\ UNCHANGED <<logger, level, handlers, propagate, user_middleware, log,
                   nsetup, uuids, request, phase, stack, downstream, result>>

\* a mapper entry point is called with the fault and the request
Handle(r) ==
    /\ Commit(r.L)
    /\ result' = r.result
    /\ UNCHANGED <<built, threads>>
    /\ UNCHANGED <<nsetup, uuids, request, phase, stack, downstream, fault>>

HandleApiError ==
    /\ fault.kind = "api"
    /\ result = NoResult
    /\ Handle(handle_api_error(LState, request, fault.exc))

HandleValidationError ==
    /\ fault.kind = "request_validation"
    /\ result = NoResult
    /\ Handle(handle_validation_error(LState, request, fault.errors))

HandlePydanticValidationError ==
    /\ fault.kind = "pydantic_validation"
    /\ result = NoResult
    /\ Handle(handle_pydantic_validation_error(LState, request, fault.errors))

HandleAppError ==
    /\ fault.kind = "app"
    /\ result = NoResult
    /\ Handle(handle_app_error(LState, request, fault.exc))

HandleGenericException ==
    /\ fault.kind = "generic"
    /\ result = NoResult
    /\ Handle(handle_generic_exception(LState, request, fault.exc))

\* APIError.from_exception(exc[, status_code][, context]) called directly
FromException ==
    /\ built = NoBuilt
    /\ \E exc \in ExcInputs, status_code \in {JNull} \cup {JInt(c) : c \in Statuses},
          context \in ContextMaps :
          LET a == from_exception(LState, exc,
                                  IF status_code = JNull
                                  THEN HTTP_500_INTERNAL_SERVER_ERROR
                                  ELSE status_code.v,
                                  context)
          IN  /\ Commit(a.L)
              /\ built' = [op |-> "from_exception", raised |-> a.raised, exc |-> a.exc,
                           args |-> [exc |-> exc, status_code |-> status_code,
                                     context |-> context]]
    /\ UNCHANGED <<nsetup, uuids, request, phase, stack, downstream, fault, result,
                   threads>>

\* the weather service asks the upstream provider for a location
GetWeatherData ==
    /\ built = NoBuilt
    /\ \E location \in Locations, o1 \in UpstreamOutcomes, o2 \in UpstreamOutcomes :
          LET r == get_weather_data(LState, location, <<o1, o2>>)
          IN  /\ Commit(r.L)
              /\ built' = [op |-> "get_weather_data",
                           out |-> [k \in DOMAIN r \ {"L"} |-> r[k]],
                           args |-> [location |-> location, upstream |-> <<o1, o2>>]]
    /\ UNCHANGED <<nsetup, uuids, request, phase, stack, downstream, fault, result,
                   threads>>

\* TemperatureData(**data) and model_dump() of the model built
ValidateTemperatureData ==
    /\ built = NoBuilt
    /\ \E data \in TemperatureRecords :
          LET r == TemperatureData(data)
          IN  built' = [op |-> "TemperatureData", out |-> r,
                        dump |-> IF r.raised = "None" THEN model_dump(r.model, FALSE)
                                 ELSE JNull,
                        args |-> [data |-> data]]
    /\ UNCHANGED <<logger, level, handlers, propagate, user_middleware, log, nsetup,
                   uuids, request, phase, stack, downstream, fault, result, threads>>

\* HealthResponseSchema(**data) and model_dump() of the model built
ValidateHealthResponse ==
    /\ built = NoBuilt
    /\ \E data \in HealthRecords :
          LET r == HealthResponseSchema(data)
          IN  built' = [op |-> "HealthResponseSchema", out |-> r,
                        dump |-> IF r.raised = "None" THEN model_dump(r.model, FALSE)
                                 ELSE JNull,
                        args |-> [data |-> data]]
    /\ UNCHANGED <<logger, level, handlers, propagate, user_middleware, log, nsetup,
                   uuids, request, phase, stack, downstream, fault, result, threads>>

\* what a step of a thread leaves alone besides the logger
ThreadFrame == UNCHANGED <<user_middleware, log, nsetup, uuids, request, phase, stack,
                           downstream, fault, result, built>>

\* a worker thread calls Logger.info/error/warning/debug/critical(message) or
\* get_request_logger(request): each of them begins by calling _get_logger
ThreadCall ==
    /\ \E t \in Threads :
          /\ threads[t].pc = "idle"
          /\ threads' = [threads EXCEPT ![t] =
                            [@ EXCEPT !.pc = "_get_logger", !.op = "none", !.ran = 0,
                                      !.unset = FALSE, !.got = "None", !.calls = <<>>]]
    /\ UNCHANGED <<logger, level, handlers, propagate>>
    /\ ThreadFrame

\* _get_logger: if cls._logger is None
ThreadGetLogger ==
    /\ \E t \in Threads :
          /\ threads[t].pc = "_get_logger"
          /\ threads' = [threads EXCEPT ![t] =
                            [@ EXCEPT !.pc = AfterCheck(logger),
                                      !.unset = (logger = "None"),
                                      !.ran = IF AfterCheck(logger) = "setLevel"
                                              THEN 1 ELSE 0]]
    /\ UNCHANGED <<logger, level, handlers, propagate>>
    /\ ThreadFrame

\* setup(): logger = logging.getLogger(name); logger.setLevel("INFO")
ThreadSetLevel ==
    /\ \E t \in Threads :
          /\ threads[t].pc = "setLevel"
          /\ threads' = [threads EXCEPT ![t].pc = "handlers"]
    /\ level' = "INFO"
    /\ UNCHANGED <<logger, handlers, propagate>>
    /\ ThreadFrame

\* setup(): logger.handlers = []; logger.propagate = False
ThreadClearHandlers ==
    /\ \E t \in Threads :
          /\ threads[t].pc = "handlers"
          /\ threads' = [threads EXCEPT ![t].pc = "addHandler"]
    /\ handlers' = <<>>
    /\ propagate' = FALSE
    /\ UNCHANGED <<logger, level>>
    /\ ThreadFrame

\* setup(): the handler is created, given its formatter and added
ThreadAddHandler ==
    /\ \E t \in Threads :
          /\ threads[t].pc = "addHandler"
          /\ threads' = [threads EXCEPT ![t].pc = "_logger"]
    /\ handlers' = Append(handlers, DefaultHandler)
    /\ UNCHANGED <<logger, level, propagate>>
    /\ ThreadFrame

\* setup(): cls._logger = logger; app is None
ThreadAssign ==
    /\ \E t \in Threads :
          /\ threads[t].pc = "_logger"
          /\ threads' = [threads EXCEPT ![t].pc = "initialized"]
    /\ logger' = APP_LOGGER_NAME
    /\ UNCHANGED <<level, handlers, propagate>>
    /\ ThreadFrame

\* setup(): logger.info("Logger initialized with level: INFO"); return logger
ThreadInitialized ==
    /\ \E t \in Threads :
          /\ threads[t].pc = "initialized"
          /\ threads' = [threads EXCEPT ![t] =
                            [@ EXCEPT !.pc = "return",
                                      !.calls = Append(@, Emitted("INFO",
                                          "Logger initialized with level: INFO"))]]
    /\ UNCHANGED <<logger, level, handlers, propagate>>
    /\ ThreadFrame

\* _get_logger: return cls._logger, on which the classmethod that was called
\* logs its message; get_request_logger binds it in the adapter it returns
ThreadReturn ==
    /\ \E t \in Threads, op \in LoggerMethods :
          /\ threads[t].pc = "return"
          /\ threads' = [threads EXCEPT ![t] =
                            [@ EXCEPT !.pc = "idle",
                                      !.op = op,
                                      !.got = logger,
                                      !.calls = IF op = "get_request_logger"
                                                THEN @
                                                ELSE Append(@,
                                                       Emitted(MethodLevel(op),
                                                               "message"))]]
    /\ UNCHANGED <<logger, level, handlers, propagate>>
    /\ ThreadFrame

ThreadNext ==
    \/ ThreadCall
    \/ ThreadGetLogger
    \/ ThreadSetLevel
    \/ ThreadClearHandlers
    \/ ThreadAddHandler
    \/ ThreadAssign
    \/ ThreadInitialized
    \/ ThreadReturn

\* a with ErrorContext(...) statement, possibly with blocks nested in its body,
\* run from start to end
RunErrorContext ==
    /\ built = NoBuilt
    /\ \E block \in BlocksOfDepth(MaxDepth) :
          LET r == WithErrorContext(GState(NoContext, LState), block)
          IN  /\ Commit(r.G.L)
              /\ built' = [op |-> "ErrorContext", args |-> [block |-> block],
                           exc |-> r.exc, entered |-> r.entered, exits |-> r.exits,
                           error_context |-> r.G.error_context]
    /\ UNCHANGED <<nsetup, uuids, request, phase, stack, downstream, fault, result,
                   threads>>

LoggerNext ==
    \/ LoggerSetup
    \/ NewRequest
    \/ DispatchEnter
    \/ EndpointReturns
    \/ EndpointRaises
    \/ DispatchExit

MapperNext ==
    \/ AppStart
    \/ NewRequest
    \/ DispatchEnter
    \/ EndpointReturns
    \/ EndpointRaises
    \/ DispatchExit
    \/ RaiseAPIError
    \/ RaiseAppError
    \/ RaiseRequestValidation
    \/ RaisePydanticValidation
    \/ RaiseGeneric
    \/ HandleApiError
    \/ HandleValidationError
    \/ HandlePydanticValidationError
    \/ HandleAppError
    \/ HandleGenericException

TaxonomyNext ==
    \/ LoggerSetup
    \/ FromException

ContextNext ==
    \/ LoggerSetup
    \/ RunErrorContext

WeatherNext ==
    \/ GetWeatherData
    \/ ValidateTemperatureData
    \/ ValidateHealthResponse

LazyNext ==
    \/ ThreadNext

\* the event loop serves requests on the app main.py created and set up
Serve ==
    /\ nsetup > 0
    /\ \/ NewRequest
       \/ DispatchEnter
       \/ EndpointReturns
       \/ EndpointRaises
       \/ DispatchExit

ConcurrentNext ==
    \/ AppStart
    \/ ThreadNext
    \/ Serve

Next ==
    LoggerNext \/ MapperNext \/ TaxonomyNext \/ WeatherNext \/ ConcurrentNext
        \/ ContextNext

\* the logger and its middleware under any sequence of setup calls and requests
LoggerSpec == Init /\ [][LoggerNext]_vars

\* the services as main.py starts them, with the faults raised while serving
MapperSpec == Init /\ [][MapperNext]_vars

\* the constructors of the error taxonomy called directly
TaxonomySpec == Init /\ [][TaxonomyNext]_vars

\* the weather adapter and the schemas of its responses
WeatherSpec == Init /\ [][WeatherNext]_vars

\* worker threads calling Logger while the event loop serves a request, with or
\* without the setup main.py runs before any request is served
ConcurrentSpec == Init /\ [][ConcurrentNext]_vars

\* worker threads calling Logger in a process where setup is never called
LazySpec == Init /\ [][LazyNext]_vars

\* ErrorContext blocks run directly, after any explicit setup calls
ContextSpec == Init /\ [][ContextNext]_vars

Spec == Init /\ [][Next]_vars

(***************************************************************************)
(* Properties                                                              *)
(***************************************************************************)
\* the mapper call of the current request has ended, and how
Handled == result # NoResult
Responded == Handled /\ result.kind = "response"
Body == result.response.content.v
ValidationOps == {"handle_validation_error", "handle_pydantic_validation_error"}
HasRequestId == "request_id" \in DOMAIN request.state

\* the slug table of the error taxonomy
SlugTable ==
    [s \in {400, 401, 403, 404, 409, 422, 429, 500, 502, 503, 504} |->
        CASE s = 400 -> "bad_request"
          [] s = 401 -> "unauthorized"
          [] s = 403 -> "forbidden"
          [] s = 404 -> "not_found"
          [] s = 409 -> "conflict"
          [] s = 422 -> "validation_error"
          [] s = 429 -> "rate_limit_exceeded"
          [] s = 500 -> "internal_server_error"
          [] s = 502 -> "bad_gateway"
          [] s = 503 -> "service_unavailable"
          [] s = 504 -> "gateway_timeout"]

\* C1: an APIError constructed with status s and no explicit error has the slug
\* the table gives for s when s is listed, and "http_<s>" for any other s.
C1_DefaultSlug ==
    (fault.kind = "api" /\ fault.args.error = JNull) =>
        LET s == fault.args.status_code
        IN  /\ fault.exc.status_code = s
            /\ fault.exc.error = IF s \in DOMAIN SlugTable THEN SlugTable[s]
                                 ELSE "http_" \o ToString(s)

C1_Witness ==
    /\ fault.kind = "api"
    /\ fault.args.error = JNull
    /\ fault.args.status_code = 429
    /\ fault.exc.error = "rate_limit_exceeded"

\* C2: every mapper entry point, called once with a fault of its category and
\* any request, is terminal: it returns one JSON response and does not raise.
C2_Terminal == Handled => result.kind = "response"

C2_Witness ==
    /\ Handled
    /\ result.op = "handle_api_error"
    /\ result.kind = "raised"
    /\ result.exc_type = "NameError"

\* C3: the HTTP status of a mapper's response equals the `code` of its body; on
\* the APIError path both equal the APIError's status_code and the body's error,
\* message and details are the APIError's; on both validation paths both are 422.
C3_StatusEqualsCode ==
    /\ (Handled /\ result.op = "handle_api_error") =>
          /\ result.kind = "response"
          /\ result.response.status_code = fault.exc.status_code
          /\ Body["code"] = JInt(fault.exc.status_code)
          /\ Body["error"] = JStr(fault.exc.error)
          /\ Body["message"] = JStr(fault.exc.message)
          /\ Body["details"] = JDict(fault.exc.details)
    /\ (Responded /\ result.op \in ValidationOps) =>
          /\ result.response.status_code = 422
          /\ Body["code"] = JInt(422)

C3_Witness ==
    /\ Handled
    /\ result.op = "handle_api_error"
    /\ fault.exc.status_code = 404
    /\ fault.exc.error = "not_found"
    /\ result.response = NoResponse

\* C4: an AppError with message m and code c reaching handle_app_error gives a
\* response with status 500, slug internal_server_error, details.app_error_message
\* = m, details.app_error_code = c, and the generic internal-error text, never m,
\* as its top-level message.
C4_AppErrorResponse ==
    (Handled /\ result.op = "handle_app_error") =>
        /\ result.kind = "response"
        /\ result.response.status_code = 500
        /\ Body["error"] = JStr("internal_server_error")
        /\ Body["details"].v["app_error_message"] = JStr(fault.exc.message)
        /\ Body["details"].v["app_error_code"] = fault.exc.error_code
        /\ Body["message"] = JStr("An internal server error occurred")
        /\ Body["message"] # JStr(fault.exc.message)

C4_Witness ==
    /\ Handled
    /\ result.op = "handle_app_error"
    /\ fault.exc.message = "X failed"
    /\ HasRequestId
    /\ result.delegated # JNull
    /\ result.delegated.v.status_code = 500
    /\ result.delegated.v.details["app_error_message"] = JStr("X failed")
    /\ result.kind = "raised"

\* the location the spec gives for a path: its elements joined by " -> "
PathElement(x) == IF x.t = "str" THEN x.v ELSE ToString(x.v)

ExpectedLocation(loc) ==
    CASE Len(loc) = 0 -> ""
      [] Len(loc) = 1 -> PathElement(loc[1])
      [] Len(loc) = 2 -> PathElement(loc[1]) \o " -> " \o PathElement(loc[2])
      [] Len(loc) = 3 -> PathElement(loc[1]) \o " -> " \o PathElement(loc[2])
                            \o " -> " \o PathElement(loc[3])

\* C5: the response to a request-schema or data-model validation fault carrying
\* n field errors has status 422, slug validation_error and `errors` of length n
\* in the same order, the i-th entry holding the i-th error's path joined by
\* " -> ", its message and its type.
C5_ValidationErrorsItemised ==
    (Responded /\ result.op \in ValidationOps) =>
        /\ result.response.status_code = 422
        /\ Body["code"] = JInt(422)
        /\ Body["error"] = JStr("validation_error")
        /\ "errors" \in DOMAIN Body
        /\ Len(Body["errors"].v) = Len(fault.errors)
        /\ \A i \in 1..Len(fault.errors) :
              LET e == Body["errors"].v[i].v
              IN  /\ e["location"] = JStr(ExpectedLocation(fault.errors[i].loc))
                  /\ e["message"] = JStr(fault.errors[i].msg)
                  /\ e["type"] = JStr(fault.errors[i].type)

C5_Witness ==
    /\ Responded
    /\ result.op = "handle_validation_error"
    /\ fault.errors = <<ErrAB, ErrC>>
    /\ Body["errors"].v[1].v["location"] = JStr("a -> b")
    /\ Body["errors"].v[2].v["location"] = JStr("c")

\* the log calls made by the mapper call of the current request, and those of
\* them that describe the fault (all but the logger's own start-up line)
CallEntries == SubSeq(log, result.log_from + 1, Len(log))

IsInitEntry(e) ==
    \E l \in LogLevels \cup {"INFO"} : e.message = "Logger initialized with level: " \o l

FaultEntries == SelectSeq(CallEntries, LAMBDA e : ~IsInitEntry(e))

\* what an entry carries in its error_context
Ctx(e) == e.extra["error_context"].v

CarriesRequest(e) ==
    /\ "error_context" \in DOMAIN e.extra
    /\ {"error_type", "path", "method"} \subseteq DOMAIN Ctx(e)
    /\ Ctx(e)["path"] = JStr(request.path)
    /\ Ctx(e)["method"] = JStr(request.method)

CarriesStatus(e, status_code) ==
    /\ "error_context" \in DOMAIN e.extra
    /\ "status_code" \in DOMAIN Ctx(e)
    /\ Ctx(e)["status_code"] = JInt(status_code)

CarriesContext(e, context) ==
    \A k \in DOMAIN context : k \in DOMAIN Ctx(e) /\ Ctx(e)[k] = context[k]

\* the status and slug each path answers with
PathStatus ==
    CASE fault.kind = "api" -> fault.exc.status_code
      [] fault.kind \in {"request_validation", "pydantic_validation"} -> 422
      [] OTHER -> 500

IsCreatedEntry(e) ==
    /\ e.message = "API Error Created: " \o fault.exc.error
    /\ e.levelname = "ERROR"
    /\ "error_context" \in DOMAIN e.extra
    /\ Ctx(e)["error_type"] = JStr(fault.exc.error)
    /\ CarriesStatus(e, fault.exc.status_code)
    /\ CarriesContext(e, fault.exc.context)
    /\ {"path", "method"} \cap DOMAIN Ctx(e) = {}

C7_MissingIdOmitted ==
    (Handled /\ request.state = EmptyDict) =>
        /\ Responded
        /\ {"request_id", "trace_id"} \cap DOMAIN Body = {}

C7_Witness ==
    /\ Handled
    /\ request.state = EmptyDict
    /\ result.op = "handle_validation_error"
    /\ result.kind = "raised"
    /\ result.exc_type = "AttributeError"

\* a null anywhere inside a serialized value
RECURSIVE HasNull(_)
HasNull(x) ==
    CASE x.t = "null" -> TRUE
      [] x.t = "dict" -> \E k \in DOMAIN x.v : HasNull(x.v[k])
      [] x.t = "list" -> \E i \in 1..Len(x.v) : HasNull(x.v[i])
      [] OTHER -> FALSE

\* C8: a serialized body keeps every set field of the ErrorResponse and holds no
\* null-valued key: request_id, trace_id, details and errors are absent when
\* unset, and on the AppError path no null-valued request_id / trace_id entry
\* appears inside details.
C8_NoNullKeys ==
    /\ Responded =>
          /\ ~HasNull(result.response.content)
          /\ {"code", "message", "error"} \subseteq DOMAIN Body
          /\ \A k \in {"request_id", "trace_id"} :
                k \in DOMAIN Body <=> k \in DOMAIN request.state
          /\ result.op \in ValidationOps =>
                "errors" \in DOMAIN Body /\ "details" \notin DOMAIN Body
    /\ (Handled /\ result.op = "handle_app_error" /\ result.delegated # JNull) =>
          \A k \in {"request_id", "trace_id"} :
             k \in DOMAIN result.delegated.v.details =>
                result.delegated.v.details[k] # JNull

C8_Witness ==
    /\ Handled
    /\ result.op = "handle_app_error"
    /\ HasRequestId
    /\ result.delegated # JNull
    /\ "trace_id" \in DOMAIN result.delegated.v.details
    /\ result.delegated.v.details["trace_id"] = JNull

IsStarted(e) == e.message = RequestStarted(request)
IsCompleted(e) == \E s \in ResponseStatuses : e.message = RequestCompleted(s)
IsFailed(e) == \E x \in EndpointFaults : e.message = RequestFailed(x)
IsFinished(e) == IsCompleted(e) \/ IsFailed(e)
HasHeader == "X-Request-ID" \in DOMAIN request.headers

\* each dispatch of LoggingMiddleware logs 'request started' before its
\* downstream runs and afterwards exactly one of 'request completed' (downstream
\* returned) or 'request failed' (downstream raised, and the exception is raised
\* again); its entries carry one correlation id, the X-Request-ID header value
\* when present and a freshly generated id otherwise, which is in the request
\* state before the downstream runs.
DispatchLogged ==
    LET n == Len(stack)
        S == SelectSeq(log, IsStarted)
        F == SelectSeq(log, IsFinished)
        ended == {i \in 1..n : stack[i].pc # "call_next"}
    IN  /\ Len(S) = n
        /\ \A i \in 1..n :
              /\ S[i].extra["request_id"] = JStr(stack[i].request_id)
              /\ HasHeader => stack[i].request_id = request.headers["X-Request-ID"]
              /\ ~HasHeader =>
                    /\ \E k \in 1..uuids : stack[i].request_id = Uuid4(k)
                    /\ \A j \in 1..n : j # i => stack[j].request_id # stack[i].request_id
        /\ n > 0 => Get(request.state, "request_id") = JStr(stack[n].request_id)
        /\ phase = "in" => ended = {}
        /\ Len(F) = Cardinality(ended)
        /\ \A j \in 1..Len(F) :
              LET i == n - j + 1
              IN  /\ i \in ended
                  /\ F[j].extra["request_id"] = JStr(stack[i].request_id)
                  /\ IsCompleted(F[j]) <=>
                        (downstream.kind = "response" /\ stack[i].pc = "returned")
                  /\ IsFailed(F[j]) <=>
                        (downstream.kind = "exception" /\ stack[i].pc = "raised")
        /\ \A a, b \in 1..Len(log) :
              (a < b /\ IsFinished(log[a])) => ~IsStarted(log[b])

\* C10: a request passing through LoggingMiddleware gets one 'request started'
\* entry before the downstream handler runs and afterwards exactly one of
\* 'request completed' (downstream returned) or 'request failed' (downstream
\* raised); all its entries carry the same correlation id, the X-Request-ID
\* header value when present and a generated id otherwise, which is in the
\* request state before the downstream handler runs.
C10_RequestLogged ==
    LET S == SelectSeq(log, IsStarted)
        F == SelectSeq(log, IsFinished)
        E == S \o F
    IN  stack # <<>> =>
          /\ Len(S) = 1
          /\ phase = "in" => F = <<>>
          /\ phase = "done" =>
                /\ Len(F) = 1
                /\ IsCompleted(F[1]) <=> downstream.kind = "response"
                /\ IsFailed(F[1]) <=> downstream.kind = "exception"
          /\ \A i \in 1..Len(E) :
                /\ E[i].extra["request_id"] = E[1].extra["request_id"]
                /\ E[i].extra["request_id"] = Get(request.state, "request_id")
                /\ HasHeader =>
                      E[i].extra["request_id"] = JStr(request.headers["X-Request-ID"])

C10_Witness ==
    /\ phase = "done"
    /\ Len(stack) = 2
    /\ ~HasHeader
    /\ downstream.kind = "response"
    /\ Len(SelectSeq(log, IsStarted)) = 2
    /\ Len(SelectSeq(log, IsCompleted)) = 2
    /\ stack[1].request_id # stack[2].request_id

\* the slug the taxonomy derives from a status
StatusSlug(c) == IF c \in DOMAIN SlugTable THEN SlugTable[c] ELSE "http_" \o ToString(c)

\* C11: from_exception(exc, status_code) yields an APIError with the given
\* status_code (500 when none is given), whose error is exc.error_code when exc
\* has a non-empty error_code attribute and the status-derived slug otherwise,
\* and whose message is str(exc), or the fallback text when str(exc) is empty.
C11_FromException ==
    built.op = "from_exception" =>
        LET exc == built.args.exc
            c == IF built.args.status_code = JNull THEN 500
                 ELSE built.args.status_code.v
            own == /\ "error_code" \in DOMAIN exc.attrs
                   /\ exc.attrs["error_code"] \notin {JNull, JStr("")}
        IN  /\ built.raised = "None"
            /\ built.exc.status_code = c
            /\ built.exc.error = IF own THEN exc.attrs["error_code"].v ELSE StatusSlug(c)
            /\ built.exc.message = IF exc.str = "" THEN "An unexpected error occurred"
                                    ELSE exc.str

C11_Witness ==
    /\ built.op = "from_exception"
    /\ built.args.status_code = JInt(503)
    /\ built.args.exc.str = ""
    /\ built.exc.error = "E42"
    /\ built.exc.status_code = 503
    /\ built.exc.message = "An unexpected error occurred"

\* the lines a formatted traceback may consist of
TraceLines == {"tb line " \o ToString(i) : i \in 1..12}

\* stack-trace text anywhere inside a value
RECURSIVE HasTrace(_)
HasTrace(x) ==
    CASE x.t = "str" -> x.v \in TraceLines
      [] x.t = "dict" -> \E k \in DOMAIN x.v : k = "traceback_summary" \/ HasTrace(x.v[k])
      [] x.t = "list" -> \E i \in 1..Len(x.v) : HasTrace(x.v[i])
      [] OTHER -> FALSE

\* the last n elements of a sequence
LastLines(q, n) == IF Len(q) > n THEN SubSeq(q, Len(q) - n + 1, Len(q)) ELSE q

\* C12: a response body holds stack-trace text on no path but the generic-fault
\* one; the details of the APIError that wraps a generic fault hold it only in
\* traceback_summary, a list of at most 5 lines (the last ones of the formatted
\* trace); the details of the APIError that wraps an AppError hold none.
C12_BoundedTrace ==
    /\ Responded =>
          (HasTrace(result.response.content) => result.op = "handle_generic_exception")
    /\ (Handled /\ result.delegated # JNull) =>
          LET details == result.delegated.v.details
          IN  IF result.op = "handle_generic_exception"
              THEN /\ "traceback_summary" \in DOMAIN details
                   /\ Len(details["traceback_summary"].v) <= 5
                   /\ details["traceback_summary"] =
                         JList(Map(LastLines(fault.exc.format_exc, 5), JStr))
                   /\ \A k \in DOMAIN details \ {"traceback_summary"} :
                         ~HasTrace(details[k])
              ELSE ~HasTrace(JDict(details))

C12_Witness ==
    /\ Handled
    /\ result.op = "handle_generic_exception"
    /\ result.delegated # JNull
    /\ Len(fault.exc.format_exc) = 7
    /\ Len(result.delegated.v.details["traceback_summary"].v) = 5
    /\ result.delegated.v.details["traceback_summary"].v[5] = JStr("tb line 7")

\* a value occurring anywhere inside another
RECURSIVE Occurs(_, _)
Occurs(x, v) ==
    \/ x = v
    \/ x.t = "dict" /\ \E k \in DOMAIN x.v : Occurs(x.v[k], v)
    \/ x.t = "list" /\ \E i \in 1..Len(x.v) : Occurs(x.v[i], v)

\* what a client can see of a mapper call: how it ended, the response, and the
\* APIError handed on for serialization without its context
Visible(r) ==
    [kind |-> r.kind, exc_type |-> r.exc_type, response |-> r.response,
     delegated |-> IF r.delegated = JNull THEN JNull
                   ELSE [r.delegated.v EXCEPT !.context = EmptyDict]]

\* the mapper call of the current request repeated on the same fault without
\* its context
ContextFreeTwin ==
    LET L0 == [LState EXCEPT !.log = SubSeq(log, 1, result.log_from)]
        twin == [fault.exc EXCEPT !.context = EmptyDict]
    IN  IF fault.kind = "api" THEN handle_api_error(L0, request, twin).result
        ELSE handle_app_error(L0, request, twin).result

\* C13: the context of an APIError or AppError reaches log entries only: the
\* same fault without its context ends the mapper call the same way, with the
\* same response and the same status, message, error and details handed on for
\* serialization, and no key or value of the context occurs in them.
C13_ContextOnlyLogged ==
    (Handled /\ fault.kind \in {"api", "app"}) =>
        /\ Visible(result).kind = Visible(ContextFreeTwin).kind
        /\ Visible(result).exc_type = Visible(ContextFreeTwin).exc_type
        /\ Visible(result).response = Visible(ContextFreeTwin).response
        /\ Visible(result).delegated = Visible(ContextFreeTwin).delegated
        /\ \A k \in DOMAIN fault.exc.context :
              LET shown == IF result.delegated = JNull THEN fault.exc
                           ELSE result.delegated.v
              IN  /\ (fault.kind = "api" \/ result.delegated # JNull) =>
                        /\ k \notin DOMAIN shown.details
                        /\ ~Occurs(JDict(shown.details), fault.exc.context[k])
                        /\ JStr(shown.message) # fault.exc.context[k]
                  /\ Responded => ~Occurs(result.response.content, fault.exc.context[k])

C13_Witness ==
    /\ Handled
    /\ fault.kind = "app"
    /\ fault.exc.context = [user_id |-> JStr("u1")]
    /\ result.delegated # JNull
    /\ DOMAIN result.delegated.v.details =
          {"app_error_message", "app_error_code", "request_id", "trace_id"}
    /\ result.delegated.v.context["user_id"] = JStr("u1")

C15_HealthRoundTrip ==
    built.op = "HealthResponseSchema" =>
        LET data == built.args.data
            richer == /\ DOMAIN data = {"status", "status_code"} \cup DOMAIN RicherFields
                      /\ data["status_code"].t = "int"
        IN  /\ richer => (built.out.raised = "None" /\ built.dump = JDict(data))
            /\ ("status_code" \in DOMAIN data /\ data["status_code"].t # "int") =>
                  built.out.raised = "ValidationError"

C15_Witness ==
    /\ built.op = "HealthResponseSchema"
    /\ built.args.data = [status |-> JStr("healthy"), status_code |-> JInt(200)] @@ RicherFields
    /\ built.out.raised = "None"
    /\ built.dump = JDict([status |-> JStr("healthy"), status_code |-> JInt(200)])

\* C16: TemperatureData accepts exactly the records whose temperature is a
\* string and whose temp_unit is "c" or "f", and an accepted record dumps to
\* itself; any other record is rejected with a validation error.
C16_TemperatureAccepted ==
    built.op = "TemperatureData" =>
        LET data == built.args.data
            valid == /\ DOMAIN data = {"temperature", "temp_unit"}
                     /\ data["temperature"].t = "str"
                     /\ data["temp_unit"] \in {JStr("c"), JStr("f")}
        IN  /\ valid <=> built.out.raised = "None"
            /\ ~valid <=> built.out.raised = "ValidationError"
            /\ built.out.raised = "None" => built.dump = JDict(data)

C16_Witness ==
    /\ built.op = "TemperatureData"
    /\ built.args.data = [temperature |-> JStr("25"), temp_unit |-> JStr("celsius")]
    /\ built.out.raised = "None"
    /\ built.dump = JDict(built.args.data)

\* C20: however many times Logger.setup is called with the app, exactly one
\* LoggingMiddleware is installed on it, and a request served through it is
\* logged as started once and as finished once.
C20_OneMiddleware ==
    /\ Len(user_middleware) <= 1
    /\ (phase = "done" /\ user_middleware # <<>>) =>
          /\ Len(SelectSeq(log, IsStarted)) = 1
          /\ Len(SelectSeq(log, IsFinished)) = 1

C20_Witness ==
    /\ nsetup = 2
    /\ user_middleware = <<"LoggingMiddleware", "LoggingMiddleware">>
    /\ phase = "done"
    /\ Len(SelectSeq(log, IsStarted)) = 2
    /\ Len(SelectSeq(log, IsFinished)) = 2

\* the shared configuration of the logger
SharedState == <<logger, level, handlers, propagate, user_middleware>>

\* the record setup() logs when called with its defaults
InitEntry == Emitted("INFO", "Logger initialized with level: INFO")

\* the steps of a thread inside setup()
SetupPcs == {"setLevel", "handlers", "addHandler", "_logger", "initialized"}

\* C17: the singleton is initialized lazily.  A log call (Logger.info, error,
\* warning, debug, critical or get_request_logger) that finds the singleton
\* unset runs setup once, which sets the singleton and logs its initialization
\* entry before the call's own record; a call that finds the singleton set
\* never runs setup; so once any log call has completed the singleton is
\* non-null, and every call gets the non-null singleton back.
C17_LazySingleton ==
    \A t \in Threads :
        LET th == threads[t]
            completed == th.pc = "idle" /\ th.op # "none"
        IN  /\ th.ran = (IF th.unset THEN 1 ELSE 0)
            /\ th.pc \in SetupPcs => th.ran = 1
            /\ th.pc \in {"return"} \cup (IF completed THEN {"idle"} ELSE {}) =>
                  /\ logger # "None"
                  /\ th.ran = 1 => (th.calls # <<>> /\ th.calls[1] = InitEntry)
                  /\ th.ran = 0 => \A i \in 1..Len(th.calls) : th.calls[i] # InitEntry
                  /\ Len(SelectSeq(th.calls, LAMBDA e : e = InitEntry)) = th.ran
            /\ completed =>
                  /\ th.got = APP_LOGGER_NAME
                  /\ th.op # "get_request_logger" =>
                        th.calls[Len(th.calls)] = Emitted(MethodLevel(th.op), "message")

\* a first call that ran setup has completed, and a later call of another thread
\* that found the singleton set has completed without running it
C17_Witness ==
    \E t, u \in Threads :
        /\ threads[t].pc = "idle" /\ threads[t].unset /\ threads[t].ran = 1
        /\ threads[t].calls = <<InitEntry, Emitted("ERROR", "message")>>
        /\ threads[u].pc = "idle" /\ threads[u].op = "get_request_logger"
        /\ ~threads[u].unset /\ threads[u].ran = 0 /\ threads[u].got = APP_LOGGER_NAME
        /\ \A v \in Threads \ {t, u} : threads[v] = IdleThread

\* C18: once main.py has run Logger.setup at process start, no request-handling
\* operation (a log call of any thread, the request middleware) changes the
\* logger's shared state: the singleton reference, the handler list with its
\* formatter, the level, the propagate flag and the installed middleware stay as
\* setup left them under every interleaving, and no thread is ever inside setup.
C18_ReadOnlyAfterStart ==
    [][(nsetup > 0 /\ nsetup' = nsetup) =>
          /\ UNCHANGED SharedState
          /\ \A t \in Threads : threads'[t].pc \notin SetupPcs]_vars

\* after the setup of main.py: a request has been served through the middleware
\* while one thread completed a log call and another is inside one
C18_Witness ==
    /\ nsetup = 1
    /\ phase = "done"
    /\ Len(SelectSeq(log, IsStarted)) = 1
    /\ Len(SelectSeq(log, IsFinished)) = 1
    /\ \E t, u \in Threads :
          /\ threads[t].pc = "idle" /\ threads[t].op = "warning"
          /\ threads[u].pc = "return" /\ ~threads[u].unset
    /\ SharedState = <<APP_LOGGER_NAME, "INFO", <<DefaultHandler>>, FALSE,
                       <<"LoggingMiddleware">>>>

\* the threads whose call found the singleton unset and ran setup
RanSetup == {t \in Threads : threads[t].unset /\ threads[t].ran = 1}

\* C19: when two (or more) first uses of the Logger run concurrently with no
\* prior setup, each finding the singleton unset and running setup, the
\* application logger is left with exactly one output handler once they have
\* completed, in whatever order their steps interleave.
C19_OneHandlerAfterRace ==
    (/\ nsetup = 0
     /\ \A t \in Threads : threads[t].pc = "idle"
     /\ Cardinality(RanSetup) >= 2) => Len(handlers) = 1

\* both calls have completed and the logger holds the handler of each
C19_Witness ==
    /\ nsetup = 0
    /\ \A t \in Threads : threads[t].pc = "idle"
    /\ Cardinality(RanSetup) = 2
    /\ handlers = <<DefaultHandler, DefaultHandler>>

\* the nesting depth of a block and the exception its innermost body raises
RECURSIVE Depth(_)
Depth(block) == IF block.body.kind = "block" THEN 1 + Depth(block.body.block) ELSE 1
RECURSIVE BodyExc(_)
BodyExc(block) ==
    CASE block.body.kind = "block" -> BodyExc(block.body.block)
      [] block.body.kind = "raises" -> block.body.exc
      [] OTHER -> NoExc

\* C21: an ErrorContext block sets the global error context on entry and
\* clears it on exit whether its body completed or raised; it logs the
\* exception only when the body raised and never suppresses it, so the
\* exception leaves the statement; after any blocks, nested ones included, no
\* error context remains set once the outermost block has exited.
C21_ContextScoped ==
    built.op = "ErrorContext" =>
        LET block == built.args.block
            n == Depth(block)
        IN  /\ Len(built.entered) = n
            /\ built.entered[1] =
                  JDict(Merge([error_type |-> JStr(block.context_name)], block.context))
            /\ Len(built.exits) = n
            /\ \A i \in 1..Len(built.exits) :
                  /\ built.exits[i].after = NoContext
                  /\ built.exits[i].exc = BodyExc(block)
                  /\ built.exits[i].nlog = (IF BodyExc(block) = NoExc THEN 0 ELSE 1)
            /\ built.exc = BodyExc(block)
            /\ built.error_context = NoContext

\* a block whose body would raise ValueError: entering it raised AttributeError,
\* no error context was set, the body never ran and nothing was logged or cleared
C21_Witness ==
    /\ built.op = "ErrorContext"
    /\ BodyExc(built.args.block) \in BodyFaults
    /\ Depth(built.args.block) = 2
    /\ built.exc.type = "AttributeError"
    /\ built.entered = <<>>
    /\ built.exits = <<>>

====
